---- MODULE Spec2Model ----
(***************************************************************************)
(* Model of the MCTS idea-refinement engine of app.py and mcts/node.py:    *)
(* the node arena, the SELECT / EVALUATE / EXPAND / BACKPROPAGATE cycle    *)
(* run by the /api/step "generate" branch, the manual operations that add  *)
(* nodes, the global best-node scan and the exploration_in_progress flag.  *)
(* Floating point numbers are modelled as exact rationals <<num, den>>.    *)
(***************************************************************************)
EXTENDS Integers, Sequences, FiniteSets, TLC

(* ------------------------------ bounds -------------------------------- *)

\* nodes ever allocated in one run of the model
MaxNodes == 4

\* accepted exploration iterations in one run of the model
MaxIter == 3

\* node-adding requests other than the first chat message and EXPAND
MaxManual == 2

(* ---------------------------- rationals -------------------------------- *)

Abs(x) == IF x < 0 THEN -x ELSE x

RECURSIVE GCD(_, _)
GCD(a, b) == IF b = 0 THEN a ELSE GCD(b, a % b)

Norm(n, d) ==
  LET g == GCD(Abs(n), d) IN <<n \div g, d \div g>>

Rat(n) == <<n, 1>>

RatAdd(a, b) ==
  LET g == GCD(a[2], b[2]) IN
  Norm(a[1] * (b[2] \div g) + b[1] * (a[2] \div g), (a[2] \div g) * b[2])

RatSub(a, b) == RatAdd(a, <<-b[1], b[2]>>)

RatMul(a, b) ==
  LET g1 == GCD(Abs(a[1]), b[2])
      g2 == GCD(Abs(b[1]), a[2])
  IN  Norm((a[1] \div g1) * (b[1] \div g2), (a[2] \div g2) * (b[2] \div g1))

\* a / k for a positive integer k
RatDivInt(a, k) ==
  LET g == GCD(Abs(a[1]), k) IN Norm(a[1] \div g, a[2] * (k \div g))

RatLess(a, b) == a[1] * b[2] < b[1] * a[2]

RECURSIVE RatPow(_, _)
RatPow(a, k) == IF k = 0 THEN Rat(1) ELSE RatMul(a, RatPow(a, k - 1))

RECURSIVE RatSum(_)
RatSum(s) == IF s = <<>> THEN Rat(0) ELSE RatAdd(Head(s), RatSum(Tail(s)))

(* ------------------------- program constants --------------------------- *)

\* mcts.config["experiment"]["max_depth"]
max_depth == 2

\* mcts.discount_factor, a rational
discount_factor == <<9, 10>>

\* default gating thresholds of best_node_by_score
min_safety_default == 6
min_analysis_default == 6

\* the parent reference of the root / an unset global
None == 0

valid_actions == <<"review_and_refine", "retrieve_and_refine", "refresh_idea">>

Threads == {"t1", "t2"}

(* ------------------------------ state ---------------------------------- *)

VARIABLES
  nodes,                   \* arena of MCTSNode objects, indexed by node id
  applied,                 \* history: the rewards applied to each node
  acting,                  \* history: the node a refresh_idea node was made from
  current_root,            \* global current_root (None or a node id)
  current_node,            \* global current_node (None or a node id)
  exploration_in_progress, \* global busy flag
  pc,                      \* position of each request handler thread
  selected_node,           \* local of step(): the node SELECT returned
  reward,                  \* local of step(): the reward EVALUATE returned
  best_node,               \* local of step(): best node found so far
  request,                 \* locals of step(): the parameters of the request
  log,                     \* what the last phase of each thread did
  iters,                   \* number of accepted exploration iterations
  manual                   \* number of manual node-adding requests

vars == <<nodes, applied, acting, current_root, current_node,
          exploration_in_progress, pc, selected_node, reward, best_node,
          request, log, iters, manual>>

NoLog == [kind |-> "none"]

(* --------------------------- MCTSNode ----------------------------------- *)

EmptyScores == [a \in {} |-> 0]

\* MCTSState.__init__ / MCTSNode.__init__
NewNode(p, act, d) ==
  [parent |-> p, action |-> act, children |-> <<>>, visits |-> 0,
   value |-> Rat(0), depth |-> d, average_score |-> 0,
   review_scores |-> EmptyScores]

\* the new node takes the place of the children p has
add_child_only(ns, p, st, act) ==
  LET id == Len(ns) + 1
      child == [st EXCEPT !.parent = p, !.action = act]
  IN  Append([ns EXCEPT ![p].children = <<id>>], child)

\* MCTSNode.add_child: the new node gets the next id and is appended to
\* the children of p
add_child(ns, p, st, act) ==
  LET id == Len(ns) + 1
      child == [st EXCEPT !.parent = p, !.action = act]
  IN  Append([ns EXCEPT ![p].children = Append(@, id)], child)

\* update with a fixed step of 1/2 instead of 1/visits
update_decay(n, r) ==
  [n EXCEPT !.visits = n.visits + 1,
            !.value = RatAdd(n.value, RatDivInt(RatSub(r, n.value), 2))]

\* MCTSNode.update
update(n, r) ==
  LET v == n.visits + 1 IN
  [n EXCEPT !.visits = v,
            !.value = RatAdd(n.value, RatDivInt(RatSub(r, n.value), v))]

(* ------------------------------ SELECT ---------------------------------- *)

Children(ns, n) == {ns[n].children[i] : i \in 1..Len(ns[n].children)}

\* fixed-point scale of the UCT comparison (three decimal digits)
Scale == 1000

Max(a, b) == IF a >= b THEN a ELSE b

\* floor(Scale * 1.414 * math.sqrt(math.log(p) / c)) for p parent visits
\* (row) and c child visits (column)
Exploration ==
  <<<<0, 0, 0, 0, 0, 0, 0, 0>>,
    <<1177, 832, 679, 588, 526, 480, 444, 416>>,
    <<1482, 1047, 855, 741, 662, 605, 560, 523>>,
    <<1664, 1177, 961, 832, 744, 679, 629, 588>>,
    <<1793, 1268, 1035, 896, 802, 732, 678, 634>>,
    <<1892, 1338, 1092, 946, 846, 772, 715, 669>>,
    <<1972, 1394, 1138, 986, 882, 805, 745, 697>>,
    <<2039, 1441, 1177, 1019, 911, 832, 770, 720>>>>

\* child.value + 1.414 * sqrt(log(max(parent.visits, 1)) / child.visits),
\* in units of 1/Scale
UCT(ns, cur, c) ==
  LET exploitation == (ns[c].value[1] * Scale) \div ns[c].value[2]
  IN  exploitation + Exploration[Max(ns[cur].visits, 1)][ns[c].visits]

\* the for loop of mcts_select over current.children: the first child with
\* the strictly greatest UCT value; an unvisited child has infinite priority
RECURSIVE UCTLoop(_, _, _, _)
UCTLoop(ns, cur, i, best) ==
  IF i > Len(ns[cur].children) THEN best.child
  ELSE LET c == ns[cur].children[i]
           inf == ns[c].visits = 0
           u == IF inf THEN 0 ELSE UCT(ns, cur, c)
           better == \/ best.child = None
                     \/ (inf /\ ~best.inf)
                     \/ (~inf /\ ~best.inf /\ u > best.uct)
       IN  IF better
           THEN UCTLoop(ns, cur, i + 1, [child |-> c, uct |-> u, inf |-> inf])
           ELSE UCTLoop(ns, cur, i + 1, best)

UCTBest(ns, cur) ==
  UCTLoop(ns, cur, 1, [child |-> None, uct |-> 0, inf |-> FALSE])

\* unvisited children are preferred only while no child has been visited
UnvisitedChildren_fresh(ns, cur) ==
  IF \A c \in Children(ns, cur) : ns[c].visits = 0
  THEN Children(ns, cur) ELSE {}

\* [child for child in current.children if child.visits == 0]
UnvisitedChildren(ns, cur) == {c \in Children(ns, cur) : ns[c].visits = 0}

\* mcts_select: the set of possible results of the descent from cur, one per
\* outcome of random.choice.  ret is the node returned, examined the nodes
\* the while loop ran on, uct the nodes whose children were compared by UCT.
RECURSIVE SelectFrom(_, _)
SelectFrom(ns, cur) ==
  LET unvisited_children == UnvisitedChildren(ns, cur) IN
  IF unvisited_children # {}
  THEN {[ret |-> c, examined |-> <<cur>>, uct |-> <<>>] :
          c \in unvisited_children}
  ELSE IF ns[cur].children = <<>>
  THEN {[ret |-> cur, examined |-> <<cur>>, uct |-> <<>>]}
  ELSE LET best_child == UCTBest(ns, cur) IN
       IF ns[best_child].children = <<>> \/ ns[best_child].depth >= max_depth
       THEN {[ret |-> best_child, examined |-> <<cur>>, uct |-> <<cur>>]}
       ELSE {[ret |-> r.ret, examined |-> <<cur>> \o r.examined,
              uct |-> <<cur>> \o r.uct] : r \in SelectFrom(ns, best_child)}

mcts_select(ns, root_node) == SelectFrom(ns, root_node)

(* ----------------------------- the Scorer ------------------------------- *)

SafetyAspect == "safety_practicality"
AnalysisAspect == "data_analysis_viability"

Scores(s, a) == (SafetyAspect :> s) @@ (AnalysisAspect :> a)

\* what review_agent.unified_review can hand back: a dict with scores and an
\* average ("ok"), a dict whose average_score is None ("none"), a falsy
\* result ("empty"), or an exception ("raise")
ReviewOutcomes ==
  { [kind |-> "ok", average_score |-> 4, scores |-> (SafetyAspect :> 7)],
    [kind |-> "ok", average_score |-> 8, scores |-> Scores(8, 5)],
    [kind |-> "none", average_score |-> 0, scores |-> EmptyScores],
    [kind |-> "empty", average_score |-> 0, scores |-> EmptyScores],
    [kind |-> "raise", average_score |-> 0, scores |-> EmptyScores] }

(* ----------------------------- EVALUATE --------------------------------- *)

\* the try block of mcts_evaluate: the node after it, the reward it returns,
\* whether the Scorer was called and whether an exception left the block,
\* for the Scorer outcome rv (consulted only when the node has no positive
\* score)
EvaluateBody(n, rv) ==
  IF n.average_score > 0
  THEN [node |-> n, reward |-> Norm(n.average_score, 10), called |-> FALSE,
        raised |-> FALSE]
  ELSE IF rv.kind = "raise"
  THEN [node |-> n, reward |-> Rat(0), called |-> TRUE, raised |-> TRUE]
  ELSE IF rv.kind # "empty"
  THEN IF rv.kind = "ok" /\ rv.average_score > 0
       THEN [node |-> [n EXCEPT !.review_scores = rv.scores,
                                !.average_score = rv.average_score],
             reward |-> Norm(rv.average_score, 10), called |-> TRUE,
             raised |-> FALSE]
       ELSE [node |-> n, reward |-> Rat(0), called |-> TRUE, raised |-> FALSE]
  ELSE [node |-> n, reward |-> Norm(1, n.depth + 1), called |-> TRUE,
        raised |-> FALSE]

\* the except clause of mcts_evaluate: return 0.5
Caught(b, n) ==
  IF b.raised
  THEN [node |-> n, reward |-> <<1, 2>>, called |-> TRUE, raised |-> FALSE]
  ELSE b

\* the exception of the Scorer is not caught
mcts_evaluate_uncaught(n, rv) == EvaluateBody(n, rv)

\* the review is returned but not written to the state of the node
mcts_evaluate_unwritten(n, rv) ==
  [Caught(EvaluateBody(n, rv), n) EXCEPT !.node = n]

\* mcts_evaluate: the try block and its except clause
mcts_evaluate(n, rv) == Caught(EvaluateBody(n, rv), n)

(* --------------------------- BACKPROPAGATE ------------------------------ *)

\* the reward is handed to the parent undiscounted
Discounted_not(r) == r

\* a factor above 1: the reward grows on its way to the root
Discounted_amplified(r) == RatMul(r, <<3, 2>>)

\* current_reward *= mcts.discount_factor
Discounted(r) == RatMul(r, discount_factor)

\* only the node itself is updated, the walk up the parent references is
\* left out
mcts_backpropagate_leaf_only(st, current, current_reward) ==
  IF current = None THEN st
  ELSE [nodes |-> [st.nodes EXCEPT ![current] = update(@, current_reward)],
        applied |-> [st.applied EXCEPT
                       ![current] = Append(@, current_reward)]]

\* mcts_backpropagate: the while loop from node up the parent references;
\* st is [nodes, applied], the arena and the history of applied rewards
RECURSIVE mcts_backpropagate(_, _, _)
mcts_backpropagate(st, current, current_reward) ==
  IF current = None THEN st
  ELSE mcts_backpropagate(
         [nodes |-> [st.nodes EXCEPT ![current] = update(@, current_reward)],
          applied |-> [st.applied EXCEPT
                         ![current] = Append(@, current_reward)]],
         st.nodes[current].parent,
         Discounted(current_reward))

(* ---------------------------- best child -------------------------------- *)

\* mcts_best_child: first child with visits > 0 and the strictly greatest
\* value, None when there is none
RECURSIVE BestChildLoop(_, _, _, _)
BestChildLoop(ns, node, i, best_child) ==
  IF i > Len(ns[node].children) THEN best_child
  ELSE LET child == ns[node].children[i] IN
       IF ns[child].visits > 0
          /\ (best_child = None
              \/ RatLess(ns[best_child].value, ns[child].value))
       THEN BestChildLoop(ns, node, i + 1, child)
       ELSE BestChildLoop(ns, node, i + 1, best_child)

mcts_best_child(ns, node) == BestChildLoop(ns, node, 1, None)

(* ------------------------------ EXPAND ---------------------------------- *)

\* the check for an existing child is left out
HasChildWithAction_never(ns, n, act) == FALSE

\* an action counts as represented once it was attempted: the node has been
\* through an EXPAND pass before (it has been visited) or has such a child
HasChildWithAction_attempted(ns, n, act) ==
  \/ ns[n].visits > 0
  \/ \E c \in Children(ns, n) : ns[c].action = act

\* any(child.action == action for child in node.children)
HasChildWithAction(ns, n, act) ==
  \E c \in Children(ns, n) : ns[c].action = act

\* what the Mutator does for one action of one EXPAND pass: mut is "ok",
\* "none" (execute_mcts_action returns None) or "raise" (it catches an
\* exception and returns None); review is the Scorer outcome for the child
MutatorKinds == {"ok", "none", "raise"}

NoReview == [kind |-> "empty", average_score |-> 0, scores |-> EmptyScores]


\* the part of execute_mcts_action that writes to the acting node: the
\* review_and_refine branch reviews the node itself when it has no
\* review_scores; pre is the Scorer outcome of that review
PreReview(n, act, pre) ==
  IF act = "review_and_refine" /\ DOMAIN n.review_scores = {}
  THEN IF pre.kind = "none" THEN [n EXCEPT !.average_score = 0]
       ELSE IF pre.kind = "ok"
       THEN [n EXCEPT !.review_scores = pre.scores,
                      !.average_score = pre.average_score]
       ELSE n
  ELSE n

\* execute_mcts_action returns a new state (TRUE) or None (FALSE)
MutatorSucceeds(n, act, pre, o) ==
  /\ o.mut = "ok"
  /\ ~(act = "review_and_refine" /\ DOMAIN n.review_scores = {}
         /\ pre.kind = "raise")

\* the review of the child is not written to its state
ScoreChild_unset(st, rv) == st

\* the evaluation of a new child inside mcts_expand
ScoreChild(st, rv) ==
  IF rv.kind = "ok"
     /\ (DOMAIN rv.scores # {} \/ rv.average_score > 0)
  THEN [st EXCEPT !.review_scores = rv.scores,
                  !.average_score = rv.average_score]
  ELSE [st EXCEPT !.average_score = 0]

\* one iteration of the for loop of mcts_expand, for valid_actions[i]
ExpandAction(ns, node, i, pre, o) ==
  LET act == valid_actions[i] IN
  IF HasChildWithAction(ns, node, act) THEN ns
  ELSE LET ns1 == [ns EXCEPT ![node] = PreReview(@, act, pre)] IN
       IF MutatorSucceeds(ns[node], act, pre, o)
       THEN add_child(ns1, node,
                      ScoreChild(NewNode(node, act, ns[node].depth + 1),
                                 o.review),
                      act)
       ELSE ns1

\* what the collaborators answered in one iteration of that loop: whether
\* the Mutator was called, whether execute_mcts_action came back with a state
\* and the average_score the Scorer returned for it (0 when it returned none)
ExpandCall(ns, node, i, pre, o) ==
  LET called == ~HasChildWithAction(ns, node, valid_actions[i])
      ok == called /\ o.mut = "ok" /\ pre.kind # "raise"
  IN  [called |-> called, ok |-> ok,
       scored |-> IF ok /\ o.review.kind = "ok"
                  THEN o.review.average_score ELSE 0]

(* ------------------------- best_node_by_score --------------------------- *)

\* an aspect that was not reviewed counts as 0
Gate_absent_fails(scores, aspect) ==
  IF aspect \in DOMAIN scores THEN scores[aspect] ELSE 0

\* scores.get(aspect, 10)
Gate(scores, aspect) ==
  IF aspect \in DOMAIN scores THEN scores[aspect] ELSE 10

Front(s) == SubSeq(s, 1, Len(s) - 1)

\* only the safety gate is applied
Viable_safety_only(n, min_safety, min_analysis) ==
  n.average_score # 0
    /\ ~(IF SafetyAspect \in DOMAIN n.review_scores
          THEN n.review_scores[SafetyAspect] < min_safety ELSE FALSE)

\* lines 1789-1801: a node takes part in the comparison when it has a
\* review and passes both viability gates
Viable(n, min_safety, min_analysis) ==
  LET avg == n.average_score
      safety == Gate(n.review_scores, SafetyAspect)
      analysis == Gate(n.review_scores, AnalysisAspect)
  IN  IF avg = 0 THEN FALSE
      ELSE IF safety < min_safety \/ analysis < min_analysis THEN FALSE
      ELSE TRUE

\* the while loop of best_node_by_score; acc.order lists the nodes popped
RECURSIVE BestScan(_, _, _, _, _)
BestScan(ns, stack, acc, min_safety, min_analysis) ==
  IF stack = <<>> THEN acc
  ELSE LET node == stack[Len(stack)]
           rest == Front(stack) \o ns[node].children
           avg == ns[node].average_score
           seen == [acc EXCEPT !.order = Append(@, node)]
       IN  IF Viable(ns[node], min_safety, min_analysis)
              /\ (acc.best = None \/ avg > acc.best_score)
           THEN BestScan(ns, rest,
                         [seen EXCEPT !.best = node, !.best_score = avg],
                         min_safety, min_analysis)
           ELSE BestScan(ns, rest, seen, min_safety, min_analysis)

ScanResult(ns, root, min_safety, min_analysis) ==
  IF root = None THEN [best |-> None, best_score |-> 0, order |-> <<>>]
  ELSE BestScan(ns, <<root>>,
                [best |-> None, best_score |-> 0, order |-> <<>>],
                min_safety, min_analysis)

best_node_by_score(ns, root, min_safety, min_analysis) ==
  ScanResult(ns, root, min_safety, min_analysis).best

(* ---------------------------- the requests ------------------------------ *)

\* data.get('max_iterations', 5)
max_iterations_default == 5

\* the parameters step() reads from the body of a "generate" request;
\* root_visits and current_score are history: the visits of the root and the
\* average score of the current node when the request arrived
Request(use_mcts, num_iterations) ==
  [use_mcts |-> use_mcts, num_iterations |-> num_iterations,
   max_iterations |-> max_iterations_default, root_visits |-> 0,
   current_score |-> 0]

NoRequest == Request(FALSE, 0)

\* if use_mcts and num_iterations <= max_iterations
RunsMcts(rq) == rq.use_mcts /\ rq.num_iterations <= rq.max_iterations

\* the JSON object step() answers a "generate" request with
GenerateResponse ==
  [status |-> 200,
   keys |-> {"idea", "nodeId", "action", "depth", "visits", "value",
             "review_scores", "average_score", "messages"}]

\* the except clause answers without a message
StepError_empty == [status |-> 500, keys |-> {}]

\* the except clause of step() answers with the message and nothing else
StepError == [status |-> 500, keys |-> {"error"}]

(* ------------------------------- Init ----------------------------------- *)

Init ==
  /\ nodes = <<>>
  /\ applied = <<>>
  /\ acting = <<>>
  /\ current_root = None
  /\ current_node = None
  /\ exploration_in_progress = FALSE
  /\ pc = [t \in Threads |-> "idle"]
  /\ selected_node = [t \in Threads |-> None]
  /\ reward = [t \in Threads |-> Rat(0)]
  /\ best_node = [t \in Threads |-> None]
  /\ request = [t \in Threads |-> NoRequest]
  /\ log = [t \in Threads |-> NoLog]
  /\ iters = 0
  /\ manual = 0

RECURSIVE Pad(_, _)
Pad(h, n) == IF Len(h) >= n THEN h ELSE Pad(Append(h, <<>>), n)

RECURSIVE Pad0(_, _)
Pad0(h, n) == IF Len(h) >= n THEN h ELSE Pad0(Append(h, None), n)

\* what acting records for a new node with label act made from node n
ActingNode(act, n) == IF act = "refresh_idea" THEN n ELSE None

\* requests are served one at a time unless conc
Quiet(conc) == conc \/ \A t \in Threads : pc[t] = "idle"

TreeVars == <<nodes, applied, acting, current_root, current_node>>
LocalVars == <<selected_node, reward, best_node, request>>
Counters == <<iters, manual>>

(* --------------------- /api/step, action "generate" --------------------- *)

\* lines 1006-1023: the request is admitted when the busy flag is clear;
\* REQ is the set of request bodies that may arrive
GenerateCheck(t, conc, REQ) ==
  /\ pc[t] = "idle"
  /\ Quiet(conc)
  /\ current_node # None
  /\ ~exploration_in_progress
  /\ iters < MaxIter
  /\ \E rq \in REQ :
       request' = [request EXCEPT ![t] =
                     [rq EXCEPT !.root_visits =
                                  IF current_root = None THEN 0
                                  ELSE nodes[current_root].visits,
                                !.current_score =
                                  nodes[current_node].average_score]]
  /\ pc' = [pc EXCEPT ![t] = "admitted"]
  /\ log' = [log EXCEPT ![t] = NoLog]
  /\ iters' = iters + 1
  /\ UNCHANGED <<TreeVars, selected_node, reward, best_node,
                 exploration_in_progress, manual>>

\* the rejection placed inside the try block whose finally clause clears the
\* flag
GenerateBusy_releases(t, conc) ==
  /\ pc[t] = "idle"
  /\ Quiet(conc)
  /\ current_node # None
  /\ exploration_in_progress
  /\ exploration_in_progress' = FALSE
  /\ log' = [log EXCEPT ![t] = [kind |-> "busy"]]
  /\ UNCHANGED <<TreeVars, LocalVars, pc, Counters>>

\* lines 1022-1023: the request finds the flag set and returns 429
GenerateBusy(t, conc) ==
  /\ pc[t] = "idle"
  /\ Quiet(conc)
  /\ current_node # None
  /\ exploration_in_progress
  /\ log' = [log EXCEPT ![t] = [kind |-> "busy"]]
  /\ UNCHANGED <<TreeVars, LocalVars, exploration_in_progress, pc, Counters>>

\* lines 1025-1030
GenerateSetFlag(t) ==
  /\ pc[t] = "admitted"
  /\ exploration_in_progress' = TRUE
  /\ best_node' = [best_node EXCEPT ![t] = current_node]
  /\ selected_node' = [selected_node EXCEPT ![t] = None]
  /\ pc' = [pc EXCEPT ![t] = "select"]
  /\ UNCHANGED <<TreeVars, reward, request, log, Counters>>

\* line 1031: use_mcts is false or num_iterations > max_iterations
GenerateNoMcts(t) ==
  /\ pc[t] = "select"
  /\ ~RunsMcts(request[t])
  /\ pc' = [pc EXCEPT ![t] = "finish"]
  /\ log' = [log EXCEPT ![t] = [kind |-> "no_mcts"]]
  /\ UNCHANGED <<TreeVars, LocalVars, exploration_in_progress, Counters>>

\* line 1034
Select(t) ==
  /\ pc[t] = "select"
  /\ RunsMcts(request[t])
  /\ IF current_root = None
     THEN /\ pc' = [pc EXCEPT ![t] = "finally"]
          /\ log' = [log EXCEPT ![t] = [kind |-> "error"]]
          /\ UNCHANGED selected_node
     ELSE \E r \in mcts_select(nodes, current_root) :
            /\ selected_node' = [selected_node EXCEPT ![t] = r.ret]
            /\ log' = [log EXCEPT ![t] =
                         [kind |-> "select", ret |-> r.ret,
                          examined |-> r.examined, uct |-> r.uct]]
            /\ pc' = [pc EXCEPT ![t] = "evaluate"]
  /\ UNCHANGED <<TreeVars, reward, best_node, request,
                 exploration_in_progress, Counters>>

\* line 1037; RV is the set of answers the Scorer may give.  An exception
\* leaving mcts_evaluate would end the request in the handlers of step().
Evaluate(t, RV) ==
  /\ pc[t] = "evaluate"
  /\ LET sel == selected_node[t] IN
     \E rv \in IF nodes[sel].average_score > 0 THEN {NoReview} ELSE RV :
       LET res == mcts_evaluate(nodes[sel], rv) IN
       IF res.raised
       THEN /\ pc' = [pc EXCEPT ![t] = "finally"]
            /\ log' = [log EXCEPT ![t] = [kind |-> "error"]]
            /\ UNCHANGED <<nodes, reward>>
       ELSE /\ nodes' = [nodes EXCEPT ![sel] = res.node]
            /\ reward' = [reward EXCEPT ![t] = res.reward]
            /\ log' = [log EXCEPT ![t] =
                         [kind |-> "evaluate", called |-> res.called,
                          review |-> rv.kind, score |-> rv.average_score,
                          scores |-> rv.scores]]
            /\ pc' = [pc EXCEPT ![t] = "expand"]
  /\ UNCHANGED <<applied, acting, current_root, current_node, selected_node,
                 best_node, request, exploration_in_progress, Counters>>

\* a depth test that lets the nodes at the limit through
AtMaxDepth_beyond(n) == n.depth > max_depth

\* lines 1040 and 1576: the depth test of step and of mcts_expand
AtMaxDepth(n) == n.depth >= max_depth

\* lines 1040 and 1576: EXPAND does nothing at the depth limit
ExpandSkip(t) ==
  /\ pc[t] = "expand"
  /\ AtMaxDepth(nodes[selected_node[t]])
  /\ log' = [log EXCEPT ![t] = [kind |-> "expand_skipped"]]
  /\ pc' = [pc EXCEPT ![t] = "backprop"]
  /\ UNCHANGED <<TreeVars, LocalVars, exploration_in_progress, Counters>>

\* the answers of the Scorer to execute_mcts_action that make a difference
PreReviews(n, act, RV) ==
  IF act = "review_and_refine" /\ DOMAIN n.review_scores = {}
  THEN RV ELSE {NoReview}

\* the answers of the Mutator and the Scorer to one loop iteration
ActionOutcomes(RV) ==
  {[mut |-> "ok", review |-> rv] : rv \in RV}
    \cup {[mut |-> m, review |-> NoReview] : m \in MutatorKinds \ {"ok"}}

\* lines 1581-1644: one iteration of the for loop of mcts_expand; the log
\* collects the calls of the pass
ExpandStep(t, RV) ==
  /\ pc[t] = "expand"
  /\ ~AtMaxDepth(nodes[selected_node[t]])
  /\ LET sel == selected_node[t]
         sofar == IF log[t].kind = "expand" THEN log[t].calls ELSE <<>>
         before == IF log[t].kind = "expand" THEN log[t].before
                   ELSE nodes[sel].children
         size == IF log[t].kind = "expand" THEN log[t].size ELSE Len(nodes)
         i == Len(sofar) + 1
     IN  /\ \E pre \in PreReviews(nodes[sel], valid_actions[i], RV) :
            \E o \in IF HasChildWithAction(nodes, sel, valid_actions[i])
                     THEN {[mut |-> "none", review |-> NoReview]}
                     ELSE ActionOutcomes(RV) :
              LET ns == ExpandAction(nodes, sel, i, pre, o) IN
              /\ Len(ns) <= MaxNodes
              /\ nodes' = ns
              /\ applied' = Pad(applied, Len(ns))
              /\ acting' = IF Len(ns) > Len(nodes)
                           THEN Append(acting, ActingNode(valid_actions[i], sel))
                           ELSE acting
              /\ log' = [log EXCEPT ![t] =
                           [kind |-> "expand", node |-> sel,
                            before |-> before, size |-> size,
                            calls |-> Append(sofar,
                                        ExpandCall(nodes, sel, i, pre, o))]]
         /\ pc' = [pc EXCEPT ![t] = IF i = Len(valid_actions)
                                    THEN "backprop" ELSE "expand"]
  /\ UNCHANGED <<current_root, current_node, LocalVars,
                 exploration_in_progress, Counters>>

\* line 1044
Backpropagate(t) ==
  /\ pc[t] = "backprop"
  /\ LET st == mcts_backpropagate([nodes |-> nodes, applied |-> applied],
                                  selected_node[t], reward[t]) IN
     /\ nodes' = st.nodes
     /\ applied' = st.applied
  /\ UNCHANGED acting
  /\ log' = [log EXCEPT ![t] =
               [kind |-> "backprop", node |-> selected_node[t],
                reward |-> reward[t]]]
  /\ pc' = [pc EXCEPT ![t] = "finish"]
  /\ UNCHANGED <<current_root, current_node, LocalVars,
                 exploration_in_progress, Counters>>

\* lines 1047-1048 and 1051-1057: the node the request navigates to
FinishTarget(ns, root, best0, sel, rew) ==
  LET best1 == IF sel # None
                  /\ RatLess(Norm(ns[best0].average_score, 10), rew)
               THEN sel ELSE best0
      final_best == mcts_best_child(ns, root)
  IN  IF final_best # None
         /\ ns[final_best].average_score > ns[best1].average_score
      THEN final_best ELSE best1

Finish(t) ==
  /\ pc[t] = "finish"
  /\ IF best_node[t] = None \/ current_root = None
     THEN /\ log' = [log EXCEPT ![t] = [kind |-> "error"]]
          /\ UNCHANGED current_node
     ELSE /\ current_node' = FinishTarget(nodes, current_root, best_node[t],
                                          selected_node[t], reward[t])
          /\ log' = [log EXCEPT ![t] = [kind |-> "finish"]]
  /\ pc' = [pc EXCEPT ![t] = "finally"]
  /\ UNCHANGED <<nodes, applied, acting, current_root, LocalVars,
                 exploration_in_progress, Counters>>

\* the flag is cleared at the end of the try block, not in a finally clause
GenerateFinally_on_success(t) ==
  /\ pc[t] = "finally"
  /\ exploration_in_progress' =
       IF log[t].kind = "error" THEN exploration_in_progress ELSE FALSE
  /\ pc' = [pc EXCEPT ![t] = "idle"]
  /\ selected_node' = [selected_node EXCEPT ![t] = None]
  /\ best_node' = [best_node EXCEPT ![t] = None]
  /\ reward' = [reward EXCEPT ![t] = Rat(0)]
  /\ request' = [request EXCEPT ![t] = NoRequest]
  /\ log' = [log EXCEPT ![t] =
               [kind |-> "released", error |-> log[t].kind = "error",
                response |-> IF log[t].kind = "error" THEN StepError
                             ELSE GenerateResponse]]
  /\ UNCHANGED <<TreeVars, Counters>>

\* line 1078 (and line 1425 when an exception passes through)
GenerateFinally(t) ==
  /\ pc[t] = "finally"
  /\ exploration_in_progress' = FALSE
  /\ pc' = [pc EXCEPT ![t] = "idle"]
  /\ selected_node' = [selected_node EXCEPT ![t] = None]
  /\ best_node' = [best_node EXCEPT ![t] = None]
  /\ reward' = [reward EXCEPT ![t] = Rat(0)]
  /\ request' = [request EXCEPT ![t] = NoRequest]
  /\ log' = [log EXCEPT ![t] =
               [kind |-> "released", error |-> log[t].kind = "error",
                response |-> IF log[t].kind = "error" THEN StepError
                             ELSE GenerateResponse]]
  /\ UNCHANGED <<TreeVars, Counters>>

(* ----------------------- operations that add nodes ---------------------- *)

\* the review of a new state as chat(), improve_idea(), refresh_idea() and
\* the retrieve / refresh branches of step() store it: scores and average
\* of a valid review, 0.0 for an average_score of None, nothing for a falsy
\* result
Reviewed(st, rv) ==
  IF rv.kind = "ok"
  THEN [st EXCEPT !.review_scores = rv.scores,
                  !.average_score = rv.average_score]
  ELSE st

\* the reviews with which these handlers reach their add_child call
StoredReviews(RV) == {rv \in RV : rv.kind # "raise"}

\* the review_and_refine branch of step() divides average_score by 10 and
\* so raises on an average_score of None
DividedReviews(RV) == {rv \in RV : rv.kind \in {"ok", "empty"}}

\* chat(), first message (lines 513-590): the root is created before the
\* Mutator and the Scorer are called; OK says whether they may raise (FALSE)
ChatInit(conc, OK, RV) ==
  /\ Quiet(conc)
  /\ current_root = None
  /\ \E ok \in OK, rv \in StoredReviews(RV) :
       LET root == Len(nodes) + 1
           ns1 == Append(nodes, NewNode(None, "root", 0))
           first == Reviewed(NewNode(root, "generate", 1), rv)
           ns2 == add_child(ns1, root, first, "generate")
       IN  /\ Len(nodes) + 2 <= MaxNodes
           /\ current_root' = root
           /\ IF ok
              THEN /\ nodes' = ns2
                   /\ current_node' = Len(ns2)
              ELSE /\ nodes' = ns1
                   /\ UNCHANGED current_node
           /\ applied' = Pad(applied, Len(nodes'))
           /\ acting' = Pad0(acting, Len(nodes'))
  /\ UNCHANGED <<LocalVars, exploration_in_progress, pc, log, Counters>>

\* a handler that adds a reviewed child of depth+1 under current_node and
\* navigates to it
AddUnderCurrent(act, rv) ==
  /\ current_root # None
  /\ current_node # None
  /\ Len(nodes) < MaxNodes
  /\ manual < MaxManual
  /\ manual' = manual + 1
  /\ nodes' = add_child(nodes, current_node,
                        Reviewed(NewNode(current_node, act,
                                         nodes[current_node].depth + 1), rv),
                        act)
  /\ applied' = Append(applied, <<>>)
  /\ acting' = Append(acting, ActingNode(act, current_node))
  /\ current_node' = Len(nodes) + 1
  /\ UNCHANGED <<current_root, LocalVars, exploration_in_progress, pc, log,
                 iters>>

\* chat(), later messages (lines 595-649)
ChatFeedback(conc, RV) ==
  /\ Quiet(conc)
  /\ \E rv \in StoredReviews(RV) : AddUnderCurrent("direct_feedback", rv)

\* improve_idea() (lines 2182-2233)
ImproveIdea(conc, RV) ==
  /\ Quiet(conc)
  /\ \E rv \in StoredReviews(RV) : AddUnderCurrent("review_and_refine", rv)

\* improve_idea_with_knowledge() (lines 2571-2601)
ImproveIdeaWithKnowledge(conc, RV) ==
  /\ Quiet(conc)
  /\ \E rv \in StoredReviews(RV) : AddUnderCurrent("retrieve_and_refine", rv)

\* step(), action "review_and_refine" (lines 1120-1178)
StepReviewAndRefine(conc, RV) ==
  /\ Quiet(conc)
  /\ \E rv \in DividedReviews(RV) : AddUnderCurrent("review_and_refine", rv)

\* step(), action "retrieve_and_refine" (lines 1181-1294)
StepRetrieveAndRefine(conc, RV) ==
  /\ Quiet(conc)
  /\ \E rv \in StoredReviews(RV) : AddUnderCurrent("retrieve_and_refine", rv)

\* step(), action "refresh_idea" (lines 1301-1355): the new state takes
\* current_node's depth + 1 and is attached to current_node's parent
StepRefreshIdea(conc, RV) ==
  /\ Quiet(conc)
  /\ current_root # None
  /\ current_node # None
  /\ Len(nodes) < MaxNodes
  /\ manual < MaxManual
  /\ manual' = manual + 1
  /\ \E rv \in StoredReviews(RV) :
       LET refresh_state ==
             Reviewed(NewNode(None, "refresh_idea",
                              nodes[current_node].depth + 1), rv)
           parent_node == IF nodes[current_node].parent # None
                          THEN nodes[current_node].parent
                          ELSE current_root
       IN  nodes' = add_child(nodes, parent_node, refresh_state,
                              "refresh_idea")
  /\ applied' = Append(applied, <<>>)
  /\ acting' = Append(acting, current_node)
  /\ current_node' = Len(nodes) + 1
  /\ UNCHANGED <<current_root, LocalVars, exploration_in_progress, pc, log,
                 iters>>

\* refresh_idea() (lines 2627-2694): depth 1 under the root
RefreshEndpoint(conc, RV) ==
  /\ Quiet(conc)
  /\ current_root # None
  /\ current_node # None
  /\ Len(nodes) < MaxNodes
  /\ manual < MaxManual
  /\ manual' = manual + 1
  /\ \E rv \in StoredReviews(RV) :
       nodes' = add_child(nodes, current_root,
                          Reviewed(NewNode(current_root, "refresh_idea", 1),
                                   rv),
                          "refresh_idea")
  /\ applied' = Append(applied, <<>>)
  /\ acting' = Append(acting, current_node)
  /\ current_node' = Len(nodes) + 1
  /\ UNCHANGED <<current_root, LocalVars, exploration_in_progress, pc, log,
                 iters>>

(* ------------------------------ navigation ------------------------------ *)

RECURSIVE Subtree(_, _)
Subtree(ns, n) ==
  {n} \cup UNION {Subtree(ns, c) : c \in Children(ns, n)}

Reachable(ns, root) == IF root = None THEN {} ELSE Subtree(ns, root)

\* get_best_child() (lines 1918-1941)
GetBestChild(conc) ==
  /\ Quiet(conc)
  /\ current_root # None
  /\ LET best == best_node_by_score(nodes, current_root,
                                    min_safety_default, min_analysis_default)
     IN  /\ best # None
         /\ current_node' = best
  /\ UNCHANGED <<nodes, applied, acting, current_root, LocalVars,
                 exploration_in_progress, pc, log, Counters>>

\* select_node() (lines 1962-1985)
SelectNode(conc) ==
  /\ Quiet(conc)
  /\ current_root # None
  /\ \E n \in Reachable(nodes, current_root) : current_node' = n
  /\ UNCHANGED <<nodes, applied, acting, current_root, LocalVars,
                 exploration_in_progress, pc, log, Counters>>

\* reset_all() (lines 477-490): the globals are cleared; the arena keeps the
\* nodes of the discarded tree, which no global refers to any more
ResetAll(conc) ==
  /\ Quiet(conc)
  /\ current_root # None
  /\ current_root' = None
  /\ current_node' = None
  /\ UNCHANGED <<nodes, applied, acting, LocalVars, exploration_in_progress, pc,
                 log,
                 Counters>>

(* ---------------------------- serialization ---------------------------- *)

\* MCTSNode.to_json: the nested dict of the subtree of n; parent_id is None
\* where the dict has no such key
RECURSIVE to_json(_, _)
to_json(ns, n) ==
  [id |-> n, action |-> ns[n].action,
   state |-> [depth |-> ns[n].depth, average_score |-> ns[n].average_score,
              review_scores |-> ns[n].review_scores],
   visits |-> ns[n].visits, value |-> ns[n].value,
   children |-> [i \in 1..Len(ns[n].children) |->
                   to_json(ns, ns[n].children[i])],
   parent_id |-> ns[n].parent]

\* the action of an MCTSNode made without one, as the root is
NoAction == "root"

\* uuid.uuid4() for the next object of the arena objs: an id no node of the
\* saved tree has
FreshId(objs) == 0 - (Len(objs) + 1)

\* MCTSNode.from_json: a new node object with the id, visits and value of
\* the dict and the state MCTSState.from_json makes; wraps is None because
\* its state is an MCTSState
from_json(objs, data, parent) ==
  Append(objs,
         [parent |-> parent, action |-> data.action, children |-> <<>>,
          visits |-> data.visits, value |-> data.value,
          depth |-> data.state.depth,
          average_score |-> data.state.average_score,
          review_scores |-> data.state.review_scores,
          id |-> data.id, wraps |-> None])

\* the object node.add_child(child) makes when child is an MCTSNode: a new
\* MCTSNode with a fresh id, no action, no visits, and child as its state
Wrapper(objs, node, child) ==
  NewNode(node, NoAction, 0) @@ [id |-> FreshId(objs), wraps |-> child]

\* MCTSNode.build_tree_from_json: [objs, node], the arena after the call and
\* the node returned; BuildChildren is its for loop over data["children"]
RECURSIVE build_tree_from_json(_, _)
RECURSIVE BuildChildren(_, _, _, _)
build_tree_from_json(objs, data) ==
  LET made == from_json(objs, data, None) IN
  BuildChildren(made, Len(made), data.children, 1)

BuildChildren(objs, node, children_data, i) ==
  IF i > Len(children_data) THEN [objs |-> objs, node |-> node]
  ELSE LET built == build_tree_from_json(objs, children_data[i])
           child == built.node
           linked == [built.objs EXCEPT ![child].parent = node]
       IN  BuildChildren(add_child(linked, node,
                                   Wrapper(linked, node, child), NoAction),
                         node, children_data, i + 1)

\* MCTSNode.save_to_file and MCTSNode.load_from_file on the tree of the
\* session: the caller holds the loaded tree
SaveAndLoad(t, conc) ==
  /\ pc[t] = "idle"
  /\ Quiet(conc)
  /\ current_root # None
  /\ LET built == build_tree_from_json(<<>>, to_json(nodes, current_root)) IN
     log' = [log EXCEPT ![t] =
               [kind |-> "loaded", objs |-> built.objs, node |-> built.node]]
  /\ pc' = [pc EXCEPT ![t] = "loaded"]
  /\ UNCHANGED <<TreeVars, LocalVars, exploration_in_progress, Counters>>

\* the caller drops the loaded tree
LoadReturn(t) ==
  /\ pc[t] = "loaded"
  /\ pc' = [pc EXCEPT ![t] = "idle"]
  /\ log' = [log EXCEPT ![t] = NoLog]
  /\ UNCHANGED <<TreeVars, LocalVars, exploration_in_progress, Counters>>

(* ------------------ start_exploration / stop_exploration ---------------- *)

\* handle_start_exploration (lines 2720-2721): admitted when the flag is clear
SocketCheck(t) ==
  /\ pc[t] = "idle"
  /\ ~exploration_in_progress
  /\ pc' = [pc EXCEPT ![t] = "ws_admitted"]
  /\ log' = [log EXCEPT ![t] = NoLog]
  /\ UNCHANGED <<TreeVars, LocalVars, exploration_in_progress, Counters>>

\* lines 2720-2721: the event finds the flag set and returns the error
SocketBusy(t) ==
  /\ pc[t] = "idle"
  /\ exploration_in_progress
  /\ log' = [log EXCEPT ![t] = [kind |-> "busy"]]
  /\ UNCHANGED <<TreeVars, LocalVars, exploration_in_progress, pc, Counters>>

\* line 2723
SocketSetFlag(t) ==
  /\ pc[t] = "ws_admitted"
  /\ exploration_in_progress' = TRUE
  /\ pc' = [pc EXCEPT ![t] = "ws_run"]
  /\ UNCHANGED <<TreeVars, LocalVars, log, Counters>>

\* lines 2725-2755: mcts.run works on a tree of its own; it returns or raises
\* and the except clause swallows the exception
SocketRun(t) ==
  /\ pc[t] = "ws_run"
  /\ \E raised \in BOOLEAN :
       log' = [log EXCEPT ![t] = [kind |-> IF raised THEN "error" ELSE "finish"]]
  /\ pc' = [pc EXCEPT ![t] = "ws_finally"]
  /\ UNCHANGED <<TreeVars, LocalVars, exploration_in_progress, Counters>>

\* lines 2757-2758
SocketFinally(t) ==
  /\ pc[t] = "ws_finally"
  /\ exploration_in_progress' = FALSE
  /\ pc' = [pc EXCEPT ![t] = "idle"]
  /\ log' = [log EXCEPT ![t] =
               [kind |-> "released", error |-> log[t].kind = "error"]]
  /\ UNCHANGED <<TreeVars, LocalVars, Counters>>

\* handle_stop_exploration (lines 2761-2764)
StopExploration ==
  /\ exploration_in_progress' = FALSE
  /\ UNCHANGED <<TreeVars, LocalVars, pc, log, Counters>>

\* step() with an action other than "generate" that raises (lines 1424-1425)
StepFailure ==
  /\ current_node # None
  /\ exploration_in_progress' = FALSE
  /\ UNCHANGED <<TreeVars, LocalVars, pc, log, Counters>>

(* ---------------------------- specifications ---------------------------- *)

Main == "t1"

\* one exploration iteration asked for, the default of num_iterations
OneIteration == {Request(TRUE, 1)}

\* use_mcts is false unless the request sets it
WithOrWithoutMcts == {Request(TRUE, 1), Request(FALSE, 1)}

\* the engine: requests served one at a time, the first chat message
\* succeeding, exploration requests and navigation
Next ==
  \/ ChatInit(FALSE, {TRUE}, ReviewOutcomes)
  \/ GenerateCheck(Main, FALSE, WithOrWithoutMcts)
  \/ GenerateSetFlag(Main)
  \/ GenerateNoMcts(Main)
  \/ Select(Main)
  \/ Evaluate(Main, ReviewOutcomes)
  \/ ExpandSkip(Main)
  \/ ExpandStep(Main, ReviewOutcomes)
  \/ Backpropagate(Main)
  \/ Finish(Main)
  \/ GenerateFinally(Main)
  \/ GetBestChild(FALSE)

Spec == Init /\ [][Next]_vars

\* the Scorer of ManualSpec always answers with the same valid review
ManualReviews == {rv \in ReviewOutcomes : rv.average_score = 8}

\* the engine together with the requests that add nodes by hand
ManualNext ==
  \/ ChatInit(FALSE, {TRUE}, ManualReviews)
  \/ GenerateCheck(Main, FALSE, OneIteration)
  \/ GenerateSetFlag(Main)
  \/ Select(Main)
  \/ Evaluate(Main, ManualReviews)
  \/ ExpandSkip(Main)
  \/ ExpandStep(Main, ManualReviews)
  \/ Backpropagate(Main)
  \/ Finish(Main)
  \/ GenerateFinally(Main)
  \/ ImproveIdea(FALSE, ManualReviews)
  \/ ImproveIdeaWithKnowledge(FALSE, ManualReviews)
  \/ StepReviewAndRefine(FALSE, ManualReviews)
  \/ StepRetrieveAndRefine(FALSE, ManualReviews)
  \/ StepRefreshIdea(FALSE, ManualReviews)
  \/ RefreshEndpoint(FALSE, ManualReviews)
  \/ SelectNode(FALSE)

ManualSpec == Init /\ [][ManualNext]_vars

\* the steps of an admitted "generate" request
GenerateProgress(t) ==
  \/ GenerateSetFlag(t)
  \/ Select(t)
  \/ Evaluate(t, ManualReviews)
  \/ ExpandSkip(t)
  \/ ExpandStep(t, ManualReviews)
  \/ Backpropagate(t)
  \/ Finish(t)
  \/ GenerateFinally(t)

\* the steps of an admitted start_exploration event
SocketProgress(t) ==
  \/ SocketSetFlag(t)
  \/ SocketRun(t)
  \/ SocketFinally(t)

\* the threaded server: requests and socket events served concurrently
ConcNext ==
  \/ ChatInit(TRUE, {TRUE}, ManualReviews)
  \/ ChatFeedback(TRUE, ManualReviews)
  \/ ResetAll(TRUE)
  \/ StopExploration
  \/ StepFailure
  \/ \E t \in Threads :
       \/ GenerateCheck(t, TRUE, OneIteration)
       \/ GenerateBusy(t, TRUE)
       \/ GenerateProgress(t)
       \/ SocketCheck(t)
       \/ SocketBusy(t)
       \/ SocketProgress(t)

ConcSpec == Init /\ [][ConcNext]_vars

Other == "t2"

\* one thread serving /api/step requests and one serving socket events
FairNext ==
  \/ ChatInit(TRUE, {TRUE}, ManualReviews)
  \/ ResetAll(TRUE)
  \/ StopExploration
  \/ StepFailure
  \/ GenerateCheck(Main, TRUE, OneIteration)
  \/ GenerateBusy(Main, TRUE)
  \/ GenerateProgress(Main)
  \/ SocketCheck(Other)
  \/ SocketBusy(Other)
  \/ SocketProgress(Other)

\* the positions of a request that has been admitted and has not returned
InFlight ==
  {"admitted", "select", "evaluate", "expand", "backprop", "finish",
   "finally", "ws_admitted", "ws_run", "ws_finally"}

\* the thread of an admitted request takes the request's next step
Advance(t) ==
  /\ pc[t] \in InFlight
  /\ \E q \in (InFlight \cup {"idle"}) \ {pc[t]} : pc' = [pc EXCEPT ![t] = q]

\* every admitted request keeps running until it returns
FairSpec ==
  /\ Init /\ [][FairNext]_vars
  /\ WF_pc(Advance(Main))
  /\ WF_pc(Advance(Other))

\* request bodies asking for one, three and six iterations
IterationCounts == {Request(TRUE, 1), Request(TRUE, 3), Request(TRUE, 6)}

\* the engine under exploration requests with different iteration counts
IterNext ==
  \/ ChatInit(FALSE, {TRUE}, ManualReviews)
  \/ GenerateCheck(Main, FALSE, IterationCounts)
  \/ GenerateSetFlag(Main)
  \/ GenerateNoMcts(Main)
  \/ Select(Main)
  \/ Evaluate(Main, ManualReviews)
  \/ ExpandSkip(Main)
  \/ ExpandStep(Main, ManualReviews)
  \/ Backpropagate(Main)
  \/ Finish(Main)
  \/ GenerateFinally(Main)

IterSpec == Init /\ [][IterNext]_vars

\* the engine with the tree saved to a file and loaded again
JsonNext ==
  \/ ChatInit(FALSE, {TRUE}, ManualReviews)
  \/ GenerateCheck(Main, FALSE, OneIteration)
  \/ GenerateSetFlag(Main)
  \/ Select(Main)
  \/ Evaluate(Main, ManualReviews)
  \/ ExpandSkip(Main)
  \/ ExpandStep(Main, ManualReviews)
  \/ Backpropagate(Main)
  \/ Finish(Main)
  \/ GenerateFinally(Main)
  \/ SaveAndLoad(Main, FALSE)
  \/ LoadReturn(Main)

JsonSpec == Init /\ [][JsonNext]_vars

\* the Scorer of SessionSpec always answers with the same valid review, one
\* that passes the default gates of get_best_child
GatePassingReviews == {rv \in ReviewOutcomes : rv.average_score = 4}

\* a session: chat, step, exploration, navigation, best-node and reset
\* requests served one at a time
SessionNext ==
  \/ ChatInit(FALSE, BOOLEAN, GatePassingReviews)
  \/ ChatFeedback(FALSE, GatePassingReviews)
  \/ GenerateCheck(Main, FALSE, OneIteration)
  \/ GenerateSetFlag(Main)
  \/ Select(Main)
  \/ Evaluate(Main, GatePassingReviews)
  \/ ExpandSkip(Main)
  \/ ExpandStep(Main, GatePassingReviews)
  \/ Backpropagate(Main)
  \/ Finish(Main)
  \/ GenerateFinally(Main)
  \/ ImproveIdea(FALSE, GatePassingReviews)
  \/ StepRefreshIdea(FALSE, GatePassingReviews)
  \/ RefreshEndpoint(FALSE, GatePassingReviews)
  \/ SelectNode(FALSE)
  \/ GetBestChild(FALSE)
  \/ ResetAll(FALSE)

SessionSpec == Init /\ [][SessionNext]_vars

\* the Mutator of RetrySpec, as a condition on the call an EXPAND step has
\* just made: it never succeeds for retrieve_and_refine, it may fail for the
\* other actions during the first exploration request and it succeeds for
\* them from the second request on
MutatorRecovers(t) ==
  LET calls == log'[t].calls
      i == Len(calls)
  IN  calls[i].called =>
        /\ valid_actions[i] = "retrieve_and_refine" => ~calls[i].ok
        /\ (valid_actions[i] # "retrieve_and_refine" /\ iters > 1) =>
             calls[i].ok

\* exploration requests that keep arriving and are served one at a time
RetryNext ==
  \/ ChatInit(FALSE, {TRUE}, ReviewOutcomes)
  \/ GenerateCheck(Main, FALSE, OneIteration)
  \/ GenerateSetFlag(Main)
  \/ Select(Main)
  \/ Evaluate(Main, ReviewOutcomes)
  \/ ExpandSkip(Main)
  \/ (ExpandStep(Main, ReviewOutcomes) /\ MutatorRecovers(Main))
  \/ Backpropagate(Main)
  \/ Finish(Main)
  \/ GenerateFinally(Main)

\* an exploration request arrives and is admitted
Arrive(t) ==
  /\ pc[t] = "idle"
  /\ current_node # None
  /\ ~exploration_in_progress
  /\ iters < MaxIter
  /\ pc' = [pc EXCEPT ![t] = "admitted"]

\* exploration requests keep arriving, and every admitted request keeps
\* running until it returns
RetrySpec ==
  /\ Init /\ [][RetryNext]_vars
  /\ WF_pc(Arrive(Main))
  /\ WF_pc(Advance(Main))

(* =============================== claims ================================= *)

Nodes == 1..Len(nodes)

RECURSIVE Ancestors(_, _)
Ancestors(ns, n) ==
  IF n = None THEN <<>> ELSE <<n>> \o Ancestors(ns, ns[n].parent)

Range(s) == {s[i] : i \in 1..Len(s)}

BackpropagateStep(t) == pc[t] = "backprop" /\ pc'[t] = "finish"

ExpandPassDone(t) ==
  log[t].kind = "expand" /\ Len(log[t].calls) = Len(valid_actions)

\* C1: after the k-th reward applied to a node, its visit count is k and its
\* value is the arithmetic mean of the k rewards; with no reward applied the
\* node has visits 0 and value 0.
C1_UpdateIsMean ==
  \A n \in Nodes :
    /\ nodes[n].visits = Len(applied[n])
    /\ nodes[n].value =
         IF applied[n] = <<>> THEN Rat(0)
         ELSE RatDivInt(RatSum(applied[n]), Len(applied[n]))

C1_Witness ==
  \E n \in Nodes :
    /\ Len(applied[n]) >= 3
    /\ applied[n][1] # applied[n][2]
    /\ applied[n][2] # applied[n][3]

\* C2: the descent of SELECT starts at the root; at every node it examines
\* that has an unvisited child it returns one of those unvisited children at
\* once, it compares children by UCT only at nodes without unvisited
\* children, and it descends only into visited children.
C2_SelectPrefersUnvisited ==
  \A t \in Threads :
    log[t].kind = "select" =>
      LET ex == log[t].examined
          Fresh(n) == {c \in Range(nodes[n].children) : nodes[c].visits = 0}
      IN  /\ ex[1] = current_root
          /\ \A i \in 1..Len(ex) :
               Fresh(ex[i]) # {} =>
                 i = Len(ex) /\ log[t].ret \in Fresh(ex[i])
          /\ \A i \in 1..Len(log[t].uct) : Fresh(log[t].uct[i]) = {}
          /\ \A i \in 1..(Len(ex) - 1) :
               /\ ex[i + 1] \in Range(nodes[ex[i]].children)
               /\ nodes[ex[i + 1]].visits > 0

C2_Witness ==
  \E t \in Threads :
    /\ log[t].kind = "select"
    /\ log[t].uct # <<>>
    /\ LET last == log[t].examined[Len(log[t].examined)] IN
       /\ \E c \in Range(nodes[last].children) : nodes[c].visits > 0
       /\ \E c \in Range(nodes[last].children) : nodes[c].visits = 0
       /\ nodes[log[t].ret].visits = 0

\* C3 (as claimed): BACKPROPAGATE from a node of state depth d ends at the
\* root and updates exactly d+1 nodes, the node and its ancestors, each visit
\* count growing by exactly 1 and no other node changing.
C3_BackpropTouchesDepthPlusOne ==
  [][\A t \in Threads :
       BackpropagateStep(t) =>
         LET leaf == selected_node[t]
             path == Ancestors(nodes, leaf)
         IN  /\ Len(path) = nodes[leaf].depth + 1
             /\ nodes[path[Len(path)]].parent = None
             /\ \A n \in Nodes :
                  IF n \in Range(path)
                  THEN nodes'[n].visits = nodes[n].visits + 1
                  ELSE /\ nodes'[n].visits = nodes[n].visits
                       /\ nodes'[n].value = nodes[n].value]_vars

\* C4: during BACKPROPAGATE(leaf, reward) the node k parent-hops above the
\* leaf is updated with reward * discount_factor^k.
C4_DiscountPerHop ==
  [][\A t \in Threads :
       BackpropagateStep(t) =>
         LET path == Ancestors(nodes, selected_node[t]) IN
         \A k \in 0..(Len(path) - 1) :
           applied'[path[k + 1]] =
             Append(applied[path[k + 1]],
                    RatMul(reward[t], RatPow(discount_factor, k)))]_vars

C4_Witness ==
  \E t \in Threads :
    /\ log[t].kind = "backprop"
    /\ nodes[log[t].node].depth = 2
    /\ log[t].reward = <<4, 5>>
    /\ LET a == applied[current_root] IN
       a # <<>> /\ a[Len(a)] = <<81, 125>>

SafetyThresholds == {min_safety_default, 8}

AnalysisThresholds == {5, min_analysis_default}

\* no request is being served: the states in which get_best_child runs
Idle == \A t \in Threads : pc[t] = "idle"

\* C5: on every tree on which get_best_child can run, and for every pair of
\* gating thresholds, best_node_by_score never returns a node whose
\* average_score is 0, nor a node with a gating aspect present in its
\* review_scores below the threshold.
C5_BestNodeIsViable ==
  Idle =>
  \A ms \in SafetyThresholds, ma \in AnalysisThresholds :
    LET b == best_node_by_score(nodes, current_root, ms, ma) IN
    b # None =>
      /\ nodes[b].average_score # 0
      /\ SafetyAspect \in DOMAIN nodes[b].review_scores =>
           nodes[b].review_scores[SafetyAspect] >= ms
      /\ AnalysisAspect \in DOMAIN nodes[b].review_scores =>
           nodes[b].review_scores[AnalysisAspect] >= ma

C5_Witness ==
  LET b == best_node_by_score(nodes, current_root, min_safety_default,
                              min_analysis_default)
      R == Reachable(nodes, current_root)
  IN  /\ Idle
      /\ b # None
      /\ current_node = b
      /\ \E n \in R :
           /\ \A m \in R \ {n} : nodes[m].average_score < nodes[n].average_score
           /\ AnalysisAspect \in DOMAIN nodes[n].review_scores
           /\ nodes[n].review_scores[AnalysisAspect] < min_analysis_default

Eligible(R, ms, ma) ==
  {n \in R :
     /\ nodes[n].average_score # 0
     /\ SafetyAspect \in DOMAIN nodes[n].review_scores =>
          nodes[n].review_scores[SafetyAspect] >= ms
     /\ AnalysisAspect \in DOMAIN nodes[n].review_scores =>
          nodes[n].review_scores[AnalysisAspect] >= ma}

\* C6: on every tree on which get_best_child can run, and for every pair of
\* gating thresholds, best_node_by_score pops every node reachable from the
\* root exactly once and returns an eligible node of maximum average_score, where a node
\* is eligible when its average_score is not 0 and every gating aspect
\* present in its review_scores meets its threshold; it returns None exactly
\* when no node is eligible.
C6_BestNodeIsMaxEligible ==
  Idle =>
  LET R == Reachable(nodes, current_root) IN
  \A ms \in SafetyThresholds, ma \in AnalysisThresholds :
    LET res == ScanResult(nodes, current_root, ms, ma)
        E == Eligible(R, ms, ma)
    IN  /\ Len(res.order) = Cardinality(R)
        /\ Range(res.order) = R
        /\ (res.best = None) <=> (E = {})
        /\ res.best # None =>
             /\ res.best \in E
             /\ \A e \in E :
                  nodes[e].average_score <= nodes[res.best].average_score

C6_Witness ==
  LET E == Eligible(Reachable(nodes, current_root), min_safety_default, 5)
      b == best_node_by_score(nodes, current_root, min_safety_default, 5)
  IN  /\ Idle
      /\ \E e \in E : AnalysisAspect \notin DOMAIN nodes[e].review_scores
      /\ \E e \in E : nodes[e].average_score < nodes[b].average_score
      /\ \E n \in Reachable(nodes, current_root) : nodes[n].average_score = 0
      /\ current_node = best_node_by_score(nodes, current_root,
                                           min_safety_default,
                                           min_analysis_default)

LabelCount(ns, n, a) ==
  Cardinality({i \in 1..Len(ns[n].children) : ns[ns[n].children[i]].action = a})

\* C7 (as claimed): after an EXPAND pass the expanded node has at most one
\* child for each action label.
C7_NoDuplicateLabelAfterExpand ==
  \A t \in Threads :
    ExpandPassDone(t) =>
      \A a \in Range(valid_actions) : LabelCount(nodes, log[t].node, a) <= 1

\* C7 (amended): EXPAND adds a child labelled a only to the node it expands
\* and only when that node has no child labelled a yet.
C7_ExpandAddsNoDuplicate ==
  [][\A t \in Threads :
       pc[t] = "expand" =>
         \A n \in Nodes : \A a \in Range(valid_actions) :
           LabelCount(nodes', n, a) > LabelCount(nodes, n, a) =>
             /\ n = selected_node[t]
             /\ LabelCount(nodes, n, a) = 0
             /\ LabelCount(nodes', n, a) = 1]_vars

C7_Witness ==
  \E t \in Threads :
    /\ ExpandPassDone(t)
    /\ log[t].before # <<>>
    /\ \E i \in 1..Len(valid_actions) : ~log[t].calls[i].called
    /\ \E i \in 1..Len(valid_actions) : log[t].calls[i].ok

\* the index of the j-th successful call of an EXPAND pass
OkIndex(calls, j) ==
  CHOOSE i \in 1..Len(calls) :
    calls[i].ok /\ Cardinality({k \in 1..i : calls[k].ok}) = j

\* C8: one EXPAND pass on a node without children below max_depth calls the
\* Mutator for every action, creates one child per successful call and
\* nothing else, in the order of the actions, and each child carries the
\* label of its action and the average_score the Scorer returned for it.
C8_ExpandChildrenAreSuccesses ==
  \A t \in Threads :
    (ExpandPassDone(t) /\ log[t].before = <<>>) =>
      LET calls == log[t].calls
          kids == nodes[log[t].node].children
      IN  /\ \A i \in 1..Len(calls) : calls[i].called
          /\ Len(kids) = Cardinality({i \in 1..Len(calls) : calls[i].ok})
          /\ Len(nodes) = log[t].size + Len(kids)
          /\ \A j \in 1..Len(kids) :
               LET i == OkIndex(calls, j) IN
               /\ nodes[kids[j]].parent = log[t].node
               /\ nodes[kids[j]].action = valid_actions[i]
               /\ nodes[kids[j]].children = <<>>
               /\ calls[i].scored > 0 =>
                    nodes[kids[j]].average_score = calls[i].scored

C8_Witness ==
  \E t \in Threads :
    /\ ExpandPassDone(t)
    /\ log[t].before = <<>>
    /\ log[t].calls[1].ok /\ log[t].calls[1].scored = 8
    /\ ~log[t].calls[2].ok
    /\ log[t].calls[3].ok /\ log[t].calls[3].scored = 4
    /\ Len(nodes[log[t].node].children) = 2

\* threads in the middle of an exploration cycle
InCycle ==
  {t \in Threads : pc[t] \in {"evaluate", "expand", "backprop", "ws_run"}}

\* C9 (as claimed): under any interleaving of /api/step "generate" requests
\* and start_exploration events at most one exploration cycle is executing.
C9_MutualExclusion == Cardinality(InCycle) <= 1

Holding(t) ==
  pc[t] \in {"select", "evaluate", "expand", "backprop", "finish", "finally",
             "ws_run", "ws_finally"}

\* C10: when a request that set the busy flag returns, normally or through an
\* exception, the flag is false in the state it leaves; and whenever the flag
\* is set it is eventually cleared, after which an exploration request finds
\* the flag clear.
C10_FlagReleased ==
  /\ [][\A t \in Threads :
          (Holding(t) /\ pc'[t] = "idle") => ~exploration_in_progress']_vars
  /\ exploration_in_progress ~> ~exploration_in_progress

C10_Witness ==
  \E t \in Threads :
    /\ log[t].kind = "released"
    /\ log[t].error
    /\ pc[t] = "idle"
    /\ ~exploration_in_progress
    /\ t = Main

EvaluateStep(t) == pc[t] = "evaluate" /\ pc'[t] # "evaluate"

\* C11: EVALUATE never propagates an exception: for every node and every
\* Scorer outcome (valid result, empty result, result with null average
\* score, raised exception) the request goes on to EXPAND with a reward in
\* [0, 1].
C11_EvaluateNeverRaises ==
  [][\A t \in Threads :
       EvaluateStep(t) =>
         /\ pc'[t] = "expand"
         /\ log'[t].kind = "evaluate"
         /\ ~RatLess(reward'[t], Rat(0))
         /\ ~RatLess(Rat(1), reward'[t])]_vars

C11_Witness ==
  \E t \in Threads :
    /\ pc[t] = "expand"
    /\ log[t].kind = "evaluate"
    /\ log[t].review = "raise"
    /\ reward[t] = <<1, 2>>

\* the ways the Scorer can fail
FailedReviews == {rv \in ReviewOutcomes : rv.kind # "ok"}

\* C12 (as claimed): when EVALUATE of a node meets a Scorer failure, every way
\* the Scorer can fail yields the same reward for that node, and that reward
\* is 1/(depth+1) or it is 0.5.
C12_SingleFallbackPolicy ==
  \A t \in Threads :
    (log[t].kind = "evaluate" /\ log[t].called /\ log[t].review # "ok") =>
      LET n == nodes[selected_node[t]]
          R == {mcts_evaluate(n, rv).reward : rv \in FailedReviews}
      IN  /\ reward[t] \in R
          /\ R = {Norm(1, n.depth + 1)} \/ R = {<<1, 2>>}

\* C13 (as claimed): an accepted exploration request with iteration count N
\* that returns normally has raised the visit count of the root by exactly N,
\* one for each SELECT, EVALUATE, EXPAND, BACKPROPAGATE iteration.
C13_RunsNIterations ==
  \A t \in Threads :
    (pc[t] = "finally" /\ log[t].kind = "finish" /\ request[t].use_mcts) =>
      nodes[current_root].visits =
        request[t].root_visits + request[t].num_iterations

\* an exception leaves a phase of the generate branch
FailingStep(t) ==
  pc[t] # "finally" /\ pc'[t] = "finally" /\ log'[t].kind = "error"

\* the request that failed returns
ErrorReturn(t) ==
  pc[t] = "finally" /\ log[t].kind = "error" /\ pc'[t] = "idle"

SameStatistics ==
  \A n \in Nodes :
    nodes'[n].visits = nodes[n].visits /\ nodes'[n].value = nodes[n].value

\* C14 (as claimed): when an exception escapes an iteration, the request
\* returns an error carrying a message and the index of the failing
\* iteration, the busy flag is reset, and no exception arises inside
\* BACKPROPAGATE nor changes a visit count or a value.
C14_ErrorCarriesIterationIndex ==
  [][\A t \in Threads :
       /\ FailingStep(t) => pc[t] # "backprop" /\ SameStatistics
       /\ ErrorReturn(t) =>
            /\ ~exploration_in_progress'
            /\ {"error", "iteration"} \subseteq log'[t].response.keys
            /\ SameStatistics]_vars

\* C14 (amended): the error carries a message, with status 500, and no
\* iteration index; the rest as claimed.
C14_ErrorKeepsStatistics ==
  [][\A t \in Threads :
       /\ FailingStep(t) => pc[t] # "backprop" /\ SameStatistics
       /\ ErrorReturn(t) =>
            /\ ~exploration_in_progress'
            /\ log'[t].response.status = 500
            /\ log'[t].response.keys = {"error"}
            /\ SameStatistics]_vars

C14_Witness ==
  \E t \in Threads :
    /\ log[t].kind = "released"
    /\ log[t].error
    /\ "response" \in DOMAIN log[t]
    /\ log[t].response = StepError
    /\ \E n \in Nodes : nodes[n].visits > 0

\* the ids of the children of object k of a loaded tree, in order
ChildIds(objs, k) ==
  [i \in 1..Len(objs[k].children) |-> objs[objs[k].children[i]].id]

\* C15 (as claimed): the tree loaded from the serialization of the session's
\* tree has the same set of node ids, the same ordered children ids under
\* each node, each child's parent reference pointing at the node that lists
\* it, and the same action, visits and value on every node.
C15_RoundTrip ==
  \A t \in Threads :
    log[t].kind = "loaded" =>
      LET objs == log[t].objs
          R == Reachable(objs, log[t].node)
      IN  /\ {objs[k].id : k \in R} = Reachable(nodes, current_root)
          /\ objs[log[t].node].id = current_root
          /\ \A k \in R :
               /\ \A c \in Children(objs, k) : objs[c].parent = k
               /\ objs[k].id \in Nodes =>
                    LET n == nodes[objs[k].id] IN
                    /\ ChildIds(objs, k) = n.children
                    /\ objs[k].action = n.action
                    /\ objs[k].visits = n.visits
                    /\ objs[k].value = n.value

RefreshNodes == {n \in Nodes : nodes[n].action = "refresh_idea"}

\* the root of the tree node n is in
RootOf(n) == LET path == Ancestors(nodes, n) IN path[Len(path)]

\* the parent of the acting node, the root when the acting node is the root
ParentOrRoot(n) == IF nodes[n].parent # None THEN nodes[n].parent ELSE n

\* C16 (as claimed): every refresh_idea node, whichever operation created it
\* (EXPAND, the refresh_idea action of step, the refresh endpoint), is
\* attached to the parent of the node the operation acted on, or every
\* refresh_idea node is attached to the root of the tree.
C16_OneAttachmentPoint ==
  \/ \A n \in RefreshNodes : nodes[n].parent = ParentOrRoot(acting[n])
  \/ \A n \in RefreshNodes : nodes[n].parent = RootOf(n)

\* C17: while the root stays the same, every node reachable from it stays
\* reachable from it under the same parent, whatever request is served; the
\* root changes only by a reset, which clears the root and the current node
\* together; and no node object is ever dropped from the arena.
C17_TreeOnlyGrows ==
  [][/\ (current_root # None /\ current_root' = current_root) =>
          \A n \in Reachable(nodes, current_root) :
            /\ n \in Reachable(nodes', current_root)
            /\ nodes'[n].parent = nodes[n].parent
     /\ (current_root # None /\ current_root' # current_root) =>
          current_root' = None /\ current_node' = None
     /\ Len(nodes') >= Len(nodes)]_vars

C17_Witness ==
  /\ current_root # None
  /\ current_root > 1
  /\ Cardinality(Reachable(nodes, current_root)) >= 3
  /\ \E n \in Reachable(nodes, current_root) : Len(nodes[n].children) >= 2

\* C18: SELECT stops at the depth limit: the node mcts_select returns has a
\* depth of at most max_depth, and every node the descent went below (every
\* node whose children the while loop looked at) has a depth below max_depth
C18_SelectStopsAtDepthLimit ==
  \A t \in Threads :
    log[t].kind = "select" =>
      /\ nodes[log[t].ret].depth <= max_depth
      /\ \A i \in 1..Len(log[t].examined) :
           nodes[log[t].examined[i]].depth < max_depth

\* a step of the EXPAND phase of thread t
ExpandPhaseStep(t) ==
  /\ pc[t] = "expand"
  /\ <<pc'[t], log'[t]>> # <<pc[t], log[t]>>

\* C19: EXPAND on a node whose depth is >= max_depth calls neither the
\* Mutator nor the Scorer and leaves the whole tree unchanged, and no node
\* made by EXPAND has a depth above max_depth
C19_ExpandNoOpAtDepthLimit ==
  [][\A t \in Threads :
       ExpandPhaseStep(t) =>
         /\ nodes[selected_node[t]].depth >= max_depth =>
              /\ nodes' = nodes
              /\ log'[t].kind = "expand_skipped"
              /\ pc'[t] = "backprop"
         /\ \A k \in (Len(nodes) + 1)..Len(nodes') :
              nodes'[k].depth <= max_depth]_vars

\* EXPAND was skipped on a node at the depth limit, and other passes of
\* EXPAND made nodes
C19_Witness ==
  \E t \in Threads :
    /\ log[t].kind = "expand_skipped"
    /\ pc[t] = "backprop"
    /\ nodes[selected_node[t]].depth >= max_depth
    /\ nodes[selected_node[t]].action \in Range(valid_actions)

\* C20: EVALUATE of a node with a positive average score returns that score
\* over 10 without calling the Scorer and without changing the node; when the
\* Scorer is called and succeeds with the score s (on the scale from 1 to 10),
\* EVALUATE writes the scores of the aspects and the average score s to the
\* state of the node and returns s/10, so that another EVALUATE of the node
\* returns the same reward, whatever the Scorer would answer, without calling
\* it
C20_EvaluateUsesStoredScore ==
  [][\A t \in Threads :
       (EvaluateStep(t) /\ log'[t].kind = "evaluate") =>
         LET sel == selected_node[t] IN
         /\ nodes[sel].average_score > 0 =>
              /\ ~log'[t].called
              /\ reward'[t] = Norm(nodes[sel].average_score, 10)
              /\ nodes' = nodes
         /\ (log'[t].called /\ log'[t].review = "ok") =>
              /\ nodes'[sel].review_scores = log'[t].scores
              /\ nodes'[sel].average_score = log'[t].score
              /\ reward'[t] = Norm(log'[t].score, 10)
              /\ \A rv \in ReviewOutcomes :
                   LET again == mcts_evaluate(nodes'[sel], rv) IN
                   /\ ~again.called
                   /\ again.reward = reward'[t]
                   /\ again.node = nodes'[sel]]_vars

\* a node was evaluated three times: the Scorer failed at the first, it gave
\* a score at the second, and the third returned that score without a call
C20_Witness ==
  \E t \in Threads :
    LET sel == selected_node[t] IN
    /\ pc[t] = "expand"
    /\ log[t].kind = "evaluate"
    /\ ~log[t].called
    /\ Len(applied[sel]) = 2
    /\ applied[sel][1] # reward[t]
    /\ applied[sel][2] = reward[t]
    /\ reward[t] = Norm(nodes[sel].average_score, 10)

\* C21: every child added by a finished EXPAND pass has an average score that
\* is set and different from 0, whatever the Scorer answered for it
C21_ExpandChildrenAreScored ==
  \A t \in Threads :
    ExpandPassDone(t) =>
      \A c \in Children(nodes, log[t].node) :
        c > log[t].size => nodes[c].average_score # 0

\* the actions for which the Mutator of RetrySpec recovers
Retryable == {i \in 1..Len(valid_actions) : valid_actions[i] # "retrieve_and_refine"}

\* an EXPAND pass on node n has called the Mutator for valid_actions[i] and
\* the call failed
FailedFor(n, i) ==
  \E t \in Threads :
    /\ log[t].kind = "expand"
    /\ log[t].node = n
    /\ Len(log[t].calls) >= i
    /\ log[t].calls[i].called
    /\ ~log[t].calls[i].ok

AllFailed(n) ==
  \E t \in Threads :
    /\ ExpandPassDone(t)
    /\ log[t].node = n
    /\ nodes[n].children = <<>>

BusyRejection(t) == log'[t].kind = "busy" /\ log[t].kind # "busy"

\* C23: an exploration request that finds the busy flag set returns the busy
\* result (it does not end in an exception handler), leaves the flag set, and
\* changes neither the tree (no node added, no visit count or value changed)
\* nor the root and current-node pointers
C23_BusyRejectionHasNoEffect ==
  [][\A t \in Threads :
       BusyRejection(t) =>
         /\ exploration_in_progress
         /\ exploration_in_progress'
         /\ pc'[t] = "idle"
         /\ nodes' = nodes
         /\ applied' = applied
         /\ current_root' = current_root
         /\ current_node' = current_node]_vars

\* a request was rejected while another one was in the middle of its cycle
C23_Witness ==
  \E t \in Threads :
    /\ log[t].kind = "busy"
    /\ exploration_in_progress
    /\ \E u \in Threads \ {t} : u \in InCycle
    /\ Len(nodes) >= 2

\* C24: in every reachable state the visit count of every node is >= 0 and
\* its value lies in [0, 1], and no step decreases a visit count (the Scorer
\* returns average scores between 0 and 10 and the discount factor is in
\* (0, 1])
C24_VisitsGrowValueInUnitInterval ==
  /\ [](\A n \in Nodes :
          /\ nodes[n].visits >= 0
          /\ ~RatLess(nodes[n].value, Rat(0))
          /\ ~RatLess(Rat(1), nodes[n].value))
  /\ [][\A n \in Nodes :
          /\ n \in 1..Len(nodes')
          /\ nodes'[n].visits >= nodes[n].visits]_vars

\* a node that was visited several times with different rewards, below a root
\* that received the discounted rewards
C24_Witness ==
  \E n \in Nodes :
    /\ nodes[n].visits >= 2
    /\ nodes[n].parent # None
    /\ \E i, j \in 1..Len(applied[n]) : applied[n][i] # applied[n][j]
    /\ RatLess(Rat(0), nodes[n].value)
    /\ RatLess(nodes[n].value, Rat(1))
    /\ RatLess(nodes[nodes[n].parent].value, nodes[n].value)

\* C25: the depth stored on every node that has a parent is the depth of its
\* parent plus 1, so that it equals the number of parent links up to the root
C25_DepthIsParentDepthPlusOne ==
  \A n \in Nodes :
    nodes[n].parent # None =>
      /\ nodes[n].depth = nodes[nodes[n].parent].depth + 1
      /\ nodes[n].depth = Len(Ancestors(nodes, n)) - 1

\* the parent and children references of the node objects ns, whose root is
\* root, agree: c is in the children of p exactly when the parent of c is p,
\* only the root has no parent, every other node is listed once by one node,
\* and the parent references lead from every node to the root
LinksConsistent(ns, root) ==
  LET All == 1..Len(ns) IN
  /\ \A p \in All : \A c \in All :
       (c \in Children(ns, p)) <=> (ns[c].parent = p)
  /\ \A k \in All : (ns[k].parent = None) <=> (k = root)
  /\ \A k \in All \ {root} :
       /\ Cardinality({p \in All : k \in Children(ns, p)}) = 1
       /\ \A p \in All :
            Cardinality({i \in 1..Len(ns[p].children) :
                           ns[p].children[i] = k}) <= 1
  /\ \A k \in All : root \in Range(Ancestors(ns, k))

\* C26: the parent and children references are consistent in every reachable
\* state, in the tree of the session and in a tree built by
\* build_tree_from_json (the root, which has no parent, is in no children
\* list)
C26_LinksConsistent ==
  /\ current_root # None => LinksConsistent(nodes, current_root)
  /\ \A t \in Threads :
       log[t].kind = "loaded" => LinksConsistent(log[t].objs, log[t].node)

\* the sum of the visit counts of the nodes of the sequence kids
RECURSIVE SumVisits(_, _)
SumVisits(ns, kids) ==
  IF kids = <<>> THEN 0 ELSE ns[Head(kids)].visits + SumVisits(ns, Tail(kids))

\* C27: between the operations of a session (exploration iterations and
\* manual operations) the visit count of every node is at least the sum of
\* the visit counts of its children
C27_VisitsCoverChildren ==
  \A n \in Nodes : nodes[n].visits >= SumVisits(nodes, nodes[n].children)

\* a node with two visited children that was also selected itself
C27_Witness ==
  \E n \in Nodes :
    /\ Len(nodes[n].children) >= 2
    /\ \A c \in Children(nodes, n) : nodes[c].visits > 0
    /\ nodes[n].visits > SumVisits(nodes, nodes[n].children)
    /\ nodes[n].parent # None
    /\ nodes[nodes[n].parent].visits = nodes[n].visits

\* C28: the current-node pointer is null or a node reachable from the current
\* root, in every state and under every interleaving of the requests
C28_CurrentNodeInTree ==
  current_node = None \/ current_node \in Reachable(nodes, current_root)

\* thread t, which had set the busy flag, leaves its finally clause
ReleasedByHolder(t) ==
  /\ pc[t] \in {"finally", "ws_finally"}
  /\ pc'[t] = "idle"

\* C29: the busy flag is cleared only by a request that set it: every step
\* that takes the flag from set to clear is the finally clause of an admitted
\* exploration request, never a stop_exploration event, a rejected request or
\* the exception handler of another step action
C29_FlagClearedByHolderOnly ==
  [][(exploration_in_progress /\ ~exploration_in_progress') =>
       \E t \in Threads : ReleasedByHolder(t)]_vars

\* thread t ends an accepted "generate" request by navigating
NavigatesAfterCycle(t) ==
  /\ pc[t] = "finish"
  /\ pc'[t] = "finally"
  /\ log'[t].kind = "finish"

====
